---- MODULE Spec2Model ----
(***************************************************************************)
(* Model of package logs (src/logs.go): a process-wide zap SugaredLogger   *)
(* "l" built by InitLogSetting from a LogConfig, fanning every record out  *)
(* to four cores (main file, error file, stdout, stderr), the leveled API  *)
(* Debug..Panicw, With, Sync and PrintPanicStack.                          *)
(*                                                                         *)
(* The behaviour of the zap calls made by logs.go (level parsing, the      *)
(* Tee of cores, SugaredLogger.With / sweetenFields, the write-then-panic  *)
(* and write-then-exit hooks) is modelled at the call site that makes the  *)
(* call.                                                                   *)
(***************************************************************************)
EXTENDS Integers, Sequences, FiniteSets, TLC

VARIABLES
    conf,            \* the LogConfig object the package variable conf points at
    l,               \* the package-level logger
    logFileHook,     \* package-level handle of the main rotation sink
    errLogFileHook,  \* package-level handle of the error rotation sink
    bound,           \* the logger handle a caller keeps from With (or NoLogger)
    pc,              \* the caller's control state: running, panicking, exited, crashed
    inflight,        \* the value of the panic that is unwinding (or NoPanic)
    out,             \* effects of the latest call, in order: sink writes, panic, exit
    lastOp,          \* the latest call and its arguments
    g                \* goroutines running InitLogSetting concurrently: position and locals

vars == <<conf, l, logFileHook, errLogFileHook, bound, pc, inflight, out, lastOp, g>>

----------------------------------------------------------------------------
(* Bounds of the model *)

\* deepest call stack runtime.Caller can walk in PrintPanicStack
MaxDepth == 2
\* largest number of extras handed to PrintPanicStack
MaxExtras == 2

----------------------------------------------------------------------------
(* zapcore levels, in zap's numbering *)

DebugLevel == -1
InfoLevel == 0
WarnLevel == 1
ErrorLevel == 2
DPanicLevel == 3
PanicLevel == 4
FatalLevel == 5

(* Go strings are tagged tuples: a literal, or what Sprint/Sprintf/Sdump render. *)
Text(s) == <<"text", s>>

(* Values passed through interface{} parameters. *)
Str(s) == <<"str", s>>
IntV(n) == <<"int", n>>
Slice(xs) == <<"slice", xs>>
Nil == <<"nil">>
IsString(x) == x[1] = "str"

----------------------------------------------------------------------------
(* LogConfig and the inputs drawn for it *)

FileNames == {"log", "app"}
LevelStrings == {"debug", "info", "warn", "error", "dpanic", "panic", "fatal",
                 "", "Warn", "verbose", "trace"}
MaxAges == {20, 30}

LogConfig == [FileName : FileNames, Level : LevelStrings, MaxAge : MaxAges, LocalTime : BOOLEAN]

DefaultConf == [FileName |-> "log", Level |-> "debug", MaxAge |-> 20, LocalTime |-> TRUE]

\* the configurations callers pass: every level string and file name with the
\* default retention, and every combination of the other fields at level debug
Configs ==
    {c \in LogConfig : c.Level = DefaultConf.Level
                       \/ (c.MaxAge = DefaultConf.MaxAge /\ c.LocalTime = DefaultConf.LocalTime)}

\* identities of LogConfig objects: the package-level one, and one built by a caller
PkgConf == "conf"
FreshConf == "fresh"

GetLogConf == PkgConf

----------------------------------------------------------------------------
(* Level parsing: level.UnmarshalText([]byte(conf.Level)) *)

ToLower(s) == IF s = "Warn" THEN "warn" ELSE s

\* zapcore.Level.unmarshalText: the exact spellings it knows
unmarshalText(s) ==
    CASE s = "debug"  -> <<TRUE, DebugLevel>>
      [] s = "info"   -> <<TRUE, InfoLevel>>
      [] s = ""       -> <<TRUE, InfoLevel>>
      [] s = "warn"   -> <<TRUE, WarnLevel>>
      [] s = "error"  -> <<TRUE, ErrorLevel>>
      [] s = "dpanic" -> <<TRUE, DPanicLevel>>
      [] s = "panic"  -> <<TRUE, PanicLevel>>
      [] s = "fatal"  -> <<TRUE, FatalLevel>>
      [] OTHER        -> <<FALSE, InfoLevel>>

\* zapcore.Level.UnmarshalText: as written, else lower-cased, else an error
UnmarshalText(s) ==
    IF unmarshalText(s)[1] THEN unmarshalText(s) ELSE unmarshalText(ToLower(s))

ParseLevel_ZeroOnError(s) == UnmarshalText(s)[2]

\* lines 51-54: start from DebugLevel, overwrite only when parsing succeeds
ParseLevel(s) ==
    IF UnmarshalText(s)[1] THEN UnmarshalText(s)[2] ELSE DebugLevel

----------------------------------------------------------------------------
(* Rotation sinks *)

MainPath(stem) == <<"./logs/", stem, ".log">>
ErrPath(stem) == <<"./logs/", stem, "_err.log">>

NewMainHook(c) == [Filename |-> MainPath(c.FileName), MaxAge |-> c.MaxAge, LocalTime |-> TRUE]
NewErrHook(c) == [Filename |-> ErrPath(c.FileName), MaxAge |-> c.MaxAge, LocalTime |-> TRUE]

----------------------------------------------------------------------------
(* Level enablers of the four cores *)

filePriority_Strict(logLevel, lvl) == lvl > logLevel

filePriority(logLevel, lvl) == lvl >= logLevel

errPriority(logLevel, lvl) == lvl >= logLevel /\ lvl >= ErrorLevel

stdoutPriority_NoUpper(logLevel, lvl) == lvl >= logLevel

stdoutPriority(logLevel, lvl) == lvl >= logLevel /\ lvl < ErrorLevel

Stdout == <<"os.Stdout">>
Stderr == <<"os.Stderr">>

\* zapcore.NewTee(...): the cores of a logger, in the order they are written
Cores(lg) ==
    << [enc |-> "plain", ws |-> lg.main.Filename, enab |-> "file"],
       [enc |-> "plain", ws |-> lg.err.Filename,  enab |-> "err"],
       [enc |-> "color", ws |-> Stdout,           enab |-> "stdout"],
       [enc |-> "color", ws |-> Stderr,           enab |-> "err"] >>

CoreEnabled(c, logLevel, lvl) ==
    CASE c.enab = "file"   -> filePriority(logLevel, lvl)
      [] c.enab = "err"    -> errPriority(logLevel, lvl)
      [] c.enab = "stdout" -> stdoutPriority(logLevel, lvl)

TeeEnabled(lg, lvl) ==
    \E i \in 1..Len(Cores(lg)) : CoreEnabled(Cores(lg)[i], lg.logLevel, lvl)

\* the logger InitLogSetting assembles from a level and two sinks
NewLogger(logLevel, mainHook, errHook) ==
    [logLevel |-> logLevel, main |-> mainHook, err |-> errHook, fields |-> <<>>]

----------------------------------------------------------------------------
(* zap.Logger: check, write to the enabled cores, then the level's hook *)

CheckWriteAction_NoPanic(lvl) ==
    CASE lvl = FatalLevel -> "WriteThenFatal"
      [] OTHER            -> "WriteThenNoop"

\* Logger.check: panic-level entries panic after the write, fatal ones exit
CheckWriteAction(lvl) ==
    CASE lvl = PanicLevel -> "WriteThenPanic"
      [] lvl = FatalLevel -> "WriteThenFatal"
      [] OTHER            -> "WriteThenNoop"

\* records at error level or above carry a stack trace (zap.AddStacktrace)
WriteEvent(c, lg, lvl, msg, fs) ==
    [ev |-> "write", sink |-> c.ws, enc |-> c.enc, level |-> lvl, msg |-> msg,
     fields |-> lg.fields \o fs, stack |-> (lvl >= ErrorLevel)]

AfterWrite(lvl, msg) ==
    CASE CheckWriteAction(lvl) = "WriteThenPanic" -> << [ev |-> "panic", v |-> msg] >>
      [] CheckWriteAction(lvl) = "WriteThenFatal" -> << [ev |-> "exit", code |-> 1] >>
      [] OTHER                                    -> << >>

LoggerWrite(lg, lvl, msg, fs) ==
    IF lvl < DPanicLevel /\ ~TeeEnabled(lg, lvl)
    THEN << >>
    ELSE LET en == SelectSeq(Cores(lg), LAMBDA c : CoreEnabled(c, lg.logLevel, lvl))
         IN  [i \in 1..Len(en) |-> WriteEvent(en[i], lg, lvl, msg, fs)] \o AfterWrite(lvl, msg)

----------------------------------------------------------------------------
(* zap.SugaredLogger: message rendering, key/value pairing, With *)

getMessage(template, fmtArgs) ==
    IF fmtArgs = << >> THEN template
    ELSE IF template # Text("") THEN <<"Sprintf", template, fmtArgs>>
    ELSE IF Len(fmtArgs) = 1 /\ IsString(fmtArgs[1]) THEN fmtArgs[1][2]
    ELSE <<"Sprint", fmtArgs>>

Field(k, v) == [key |-> k, val |-> v]

RECURSIVE sweeten(_, _, _)
sweeten(args, i, acc) ==
    IF i > Len(args) THEN acc
    ELSE IF i = Len(args) THEN [acc EXCEPT !.dangling = <<args[i]>>]
    ELSE IF ~IsString(args[i])
         THEN sweeten(args, i + 2, [acc EXCEPT !.invalid = Append(@, <<i, args[i], args[i + 1]>>)])
         ELSE sweeten(args, i + 2, [acc EXCEPT !.fields = Append(@, Field(args[i][2], args[i + 1]))])

\* pairs args[1],args[2]; args[3],args[4]; ...  A last argument without a
\* partner is dropped and reported; so is a pair whose key is not a string.
sweetenFields(args) ==
    sweeten(args, 1, [fields |-> << >>, dangling |-> << >>, invalid |-> << >>])

\* the records sweetenFields logs about the arguments it dropped, at level il
sweetenDiag(lg, sw, il) ==
    (IF sw.dangling # << >>
     THEN LoggerWrite(lg, il, Text("Ignored key without a value."),
                      <<Field("ignored", sw.dangling[1])>>)
     ELSE << >>)
    \o
    (IF sw.invalid # << >>
     THEN LoggerWrite(lg, il, Text("Ignored key-value pairs with non-string keys."),
                      <<Field("invalid", sw.invalid)>>)
     ELSE << >>)

\* the level of those records differs between zap releases (DPanic, later
\* Error); it is drawn only when sweetenFields drops something
IgnoredLevels == {ErrorLevel, DPanicLevel}
DiagLevels(args) ==
    IF sweetenFields(args).dangling # << >> \/ sweetenFields(args).invalid # << >>
    THEN IgnoredLevels
    ELSE {ErrorLevel}

\* SugaredLogger.log
SugarLog(lg, lvl, template, fmtArgs, context, il) ==
    IF lvl < DPanicLevel /\ ~TeeEnabled(lg, lvl)
    THEN << >>
    ELSE LET sw == sweetenFields(context)
         IN  sweetenDiag(lg, sw, il) \o LoggerWrite(lg, lvl, getMessage(template, fmtArgs), sw.fields)

\* SugaredLogger.With(args...)
SugarWith(lg, args, il) ==
    LET sw == sweetenFields(args)
    IN  [logger |-> [lg EXCEPT !.fields = @ \o sw.fields], out |-> sweetenDiag(lg, sw, il)]

----------------------------------------------------------------------------
(* State after package initialisation: init() runs InitLogSetting(conf) once *)

NoLogger == [none |-> TRUE]
NoPanic == << >>
Goroutines == {1, 2}
Idle == [at |-> "idle"]

Init ==
    /\ conf = DefaultConf
    /\ logFileHook = NewMainHook(DefaultConf)
    /\ errLogFileHook = NewErrHook(DefaultConf)
    /\ l = NewLogger(ParseLevel(DefaultConf.Level), NewMainHook(DefaultConf), NewErrHook(DefaultConf))
    /\ bound = NoLogger
    /\ pc = "running"
    /\ inflight = NoPanic
    /\ out = << >>
    /\ lastOp = [op |-> "init"]
    /\ g = [i \in Goroutines |-> Idle]

Quiet == \A i \in Goroutines : g[i].at = "idle"

----------------------------------------------------------------------------
(* InitLogSetting, run by one caller from start to end *)

InitLogSetting(cptr, c) ==
    /\ pc = "running"
    /\ Quiet
    /\ logFileHook' = NewMainHook(c)
    /\ errLogFileHook' = NewErrHook(c)
    /\ l' = NewLogger(ParseLevel(c.Level), logFileHook', errLogFileHook')
    /\ out' = << >>
    /\ lastOp' = [op |-> "InitLogSetting", cptr |-> cptr, c |-> c]
    /\ UNCHANGED <<conf, bound, pc, inflight, g>>

\* a caller changes a field of the object GetLogConf returned
MutateConf(a) ==
    /\ pc = "running"
    /\ Quiet
    /\ conf.MaxAge # a
    /\ conf' = [conf EXCEPT !.MaxAge = a]
    /\ out' = << >>
    /\ lastOp' = [op |-> "MutateConf", a |-> a]
    /\ UNCHANGED <<l, logFileHook, errLogFileHook, bound, pc, inflight, g>>

----------------------------------------------------------------------------
(* The leveled API *)

Ends(o, kind) == o # << >> /\ o[Len(o)].ev = kind

\* what a call's effects leave the caller doing
Control(o) ==
    IF Ends(o, "panic") THEN "panicking" ELSE IF Ends(o, "exit") THEN "exited" ELSE "running"

Thrown(o) == IF Ends(o, "panic") THEN <<Str(o[Len(o)].v)>> ELSE NoPanic

Leveled(name, via, lg, lvl, template, fmtArgs, context) ==
    /\ \E il \in DiagLevels(context) :
          LET o == SugarLog(lg, lvl, template, fmtArgs, context, il)
          IN  /\ out' = o
              /\ pc' = Control(o)
              /\ inflight' = Thrown(o)
    /\ lastOp' = [op |-> name, via |-> via, lvl |-> lvl, template |-> template,
                  fmtArgs |-> fmtArgs, context |-> context]
    /\ UNCHANGED <<conf, l, logFileHook, errLogFileHook, bound, g>>

PlainArgs == { <<Str(Text("m"))>> }
Formats == { Text("f=%v") }
FmtArgs == { <<Str(Text("a"))>> }
Msgs == { Text("m") }
KVArgs == { <<Str(Text("k")), Str(Text("v"))>> }

Debug(v) ==
    /\ pc = "running"
    /\ Leveled("Debug", "pkg", l, DebugLevel, Text(""), v, << >>)
Debugf(format, v) ==
    /\ pc = "running"
    /\ Leveled("Debugf", "pkg", l, DebugLevel, format, v, << >>)
Debugw(format, keysAndValues) ==
    /\ pc = "running"
    /\ Leveled("Debugw", "pkg", l, DebugLevel, format, << >>, keysAndValues)

Info(v) ==
    /\ pc = "running"
    /\ Leveled("Info", "pkg", l, InfoLevel, Text(""), v, << >>)
Infof(format, v) ==
    /\ pc = "running"
    /\ Leveled("Infof", "pkg", l, InfoLevel, format, v, << >>)
Infow(format, keysAndValues) ==
    /\ pc = "running"
    /\ Leveled("Infow", "pkg", l, InfoLevel, format, << >>, keysAndValues)

Warn(v) ==
    /\ pc = "running"
    /\ Leveled("Warn", "pkg", l, WarnLevel, Text(""), v, << >>)
Warnf(format, v) ==
    /\ pc = "running"
    /\ Leveled("Warnf", "pkg", l, WarnLevel, format, v, << >>)
Warnw(format, keysAndValues) ==
    /\ pc = "running"
    /\ Leveled("Warnw", "pkg", l, WarnLevel, format, << >>, keysAndValues)

Error(v) ==
    /\ pc = "running"
    /\ Leveled("Error", "pkg", l, ErrorLevel, Text(""), v, << >>)
Errorf(format, v) ==
    /\ pc = "running"
    /\ Leveled("Errorf", "pkg", l, ErrorLevel, format, v, << >>)
Errorw(format, keysAndValues) ==
    /\ pc = "running"
    /\ Leveled("Errorw", "pkg", l, ErrorLevel, format, << >>, keysAndValues)

Fatal(v) ==
    /\ pc = "running"
    /\ Leveled("Fatal", "pkg", l, FatalLevel, Text(""), v, << >>)
Fatalf(format, v) ==
    /\ pc = "running"
    /\ Leveled("Fatalf", "pkg", l, FatalLevel, format, v, << >>)
Fatalw(format, keysAndValues) ==
    /\ pc = "running"
    /\ Leveled("Fatalw", "pkg", l, FatalLevel, format, << >>, keysAndValues)

Panic(v) ==
    /\ pc = "running"
    /\ Leveled("Panic", "pkg", l, PanicLevel, Text(""), v, << >>)
Panicf(format, v) ==
    /\ pc = "running"
    /\ Leveled("Panicf", "pkg", l, PanicLevel, format, v, << >>)
Panicw(format, keysAndValues) ==
    /\ pc = "running"
    /\ Leveled("Panicw", "pkg", l, PanicLevel, format, << >>, keysAndValues)

\* l.Sync(): flushes the sinks, writes no record
Sync ==
    /\ pc = "running"
    /\ lastOp.op # "Sync"
    /\ out' = << >>
    /\ lastOp' = [op |-> "Sync"]
    /\ UNCHANGED <<conf, l, logFileHook, errLogFileHook, bound, pc, inflight, g>>

----------------------------------------------------------------------------
(* With, and logging through the handle it returned *)

\* logs.With hands its variadic slice to l.With as ONE argument: l.With(args)
With(args) ==
    /\ pc = "running"
    /\ \E il \in DiagLevels(<<Slice(args)>>) :
          LET r == SugarWith(l, <<Slice(args)>>, il)
          IN  /\ bound' = r.logger
              /\ out' = r.out
    /\ lastOp' = [op |-> "With", args |-> args]
    /\ UNCHANGED <<conf, l, logFileHook, errLogFileHook, pc, inflight, g>>

WithArgs == { << >>,
              <<Str(Text("k1")), Str(Text("v1"))>>,
              <<Str(Text("k1")), Str(Text("v1")), Str(Text("k2")), Str(Text("v2"))>> }

APILevels == {DebugLevel, InfoLevel, WarnLevel, ErrorLevel, PanicLevel, FatalLevel}

\* the caller logs through the handle: bound.Debug(v...), ..., bound.Fatal(v...)
BoundLog(lvl, v) ==
    /\ pc = "running"
    /\ bound # NoLogger
    /\ Leveled("bound", "bound", bound, lvl, Text(""), v, << >>)

----------------------------------------------------------------------------
(* Panics and PrintPanicStack *)

PanicNilError == <<"runtime.PanicNilError">>
PanicVals == { Str(Text("boom")), Nil }

\* code of the caller panics
CallerPanic(v) ==
    /\ pc = "running"
    /\ pc' = "panicking"
    /\ inflight' = <<v>>
    /\ out' = << [ev |-> "panic", v |-> v] >>
    /\ lastOp' = [op |-> "panic", v |-> v]
    /\ UNCHANGED <<conf, l, logFileHook, errLogFileHook, bound, g>>

\* the panic reaches the top of the goroutine with nothing recovering it
Crash ==
    /\ pc = "panicking"
    /\ pc' = "crashed"
    /\ UNCHANGED <<conf, l, logFileHook, errLogFileHook, bound, inflight, out, lastOp, g>>

\* what recover() can return: nil when nothing panics, else the panic's value;
\* for panic(nil) it is nil before Go 1.21 and a *runtime.PanicNilError since
recover ==
    IF pc # "panicking" THEN {Nil}
    ELSE IF inflight[1] = Nil THEN {Nil, PanicNilError}
    ELSE {inflight[1]}

Caller_OffByOne(i, depth) == i <= depth

\* runtime.Caller(i) succeeds for the frames 0 .. depth-1
Caller(i, depth) == i < depth
Frame(i) == <<"frame", i>>
Sdump(e) == <<"Sdump", e>>
Extra(k) == <<"extra", k>>
Extras(n) == [k \in 1..n |-> Extra(k)]

FrameFormat == Text("frame %v:[func:%v,file:%v,line:%v]\n")
ExtraFormat == Text("EXTRAS#%v DATA:%v\n")

ErrorOut(lg, v) == SugarLog(lg, ErrorLevel, Text(""), v, << >>, ErrorLevel)
ErrorfOut(lg, format, v) == SugarLog(lg, ErrorLevel, format, v, << >>, ErrorLevel)

RECURSIVE FrameRecords(_, _, _)
FrameRecords(lg, i, depth) ==
    IF Caller(i, depth)
    THEN ErrorfOut(lg, FrameFormat, <<IntV(i), Frame(i)>>) \o FrameRecords(lg, i + 1, depth)
    ELSE << >>

RECURSIVE ExtraRecords(_, _, _)
ExtraRecords(lg, extras, k) ==
    IF k < Len(extras)
    THEN ErrorfOut(lg, ExtraFormat, <<IntV(k), Str(Sdump(extras[k + 1]))>>) \o ExtraRecords(lg, extras, k + 1)
    ELSE << >>

\* run as a deferred call: while a panic unwinds, or on a normal return
\* lastOp.walked: the depth of the stack the loop at lines 105-110 walked
PrintPanicStack(extras, depth) ==
    /\ pc \in {"running", "panicking"}
    /\ \E x \in recover :
          /\ out' = IF x # Nil
                    THEN ErrorOut(l, <<x>>) \o FrameRecords(l, 0, depth) \o ExtraRecords(l, extras, 0)
                    ELSE << >>
          /\ lastOp' = [op |-> "PrintPanicStack", extras |-> extras, v |-> inflight, x |-> x,
                        walked |-> IF x # Nil THEN depth ELSE 0]
    /\ pc' = "running"
    /\ inflight' = NoPanic
    /\ UNCHANGED <<conf, l, logFileHook, errLogFileHook, bound, g>>

----------------------------------------------------------------------------
(* One caller at a time *)

Next ==
    \/ \E c \in Configs : InitLogSetting(FreshConf, c)
    \/ InitLogSetting(PkgConf, conf)
    \/ \E a \in MaxAges : MutateConf(a)
    \/ \E v \in PlainArgs : Debug(v)
    \/ \E f \in Formats, v \in FmtArgs : Debugf(f, v)
    \/ \E m \in Msgs, kv \in KVArgs : Debugw(m, kv)
    \/ \E v \in PlainArgs : Info(v)
    \/ \E f \in Formats, v \in FmtArgs : Infof(f, v)
    \/ \E m \in Msgs, kv \in KVArgs : Infow(m, kv)
    \/ \E v \in PlainArgs : Warn(v)
    \/ \E f \in Formats, v \in FmtArgs : Warnf(f, v)
    \/ \E m \in Msgs, kv \in KVArgs : Warnw(m, kv)
    \/ \E v \in PlainArgs : Error(v)
    \/ \E f \in Formats, v \in FmtArgs : Errorf(f, v)
    \/ \E m \in Msgs, kv \in KVArgs : Errorw(m, kv)
    \/ \E v \in PlainArgs : Fatal(v)
    \/ \E f \in Formats, v \in FmtArgs : Fatalf(f, v)
    \/ \E m \in Msgs, kv \in KVArgs : Fatalw(m, kv)
    \/ \E v \in PlainArgs : Panic(v)
    \/ \E f \in Formats, v \in FmtArgs : Panicf(f, v)
    \/ \E m \in Msgs, kv \in KVArgs : Panicw(m, kv)
    \/ Sync
    \/ \E a \in WithArgs : With(a)
    \/ \E lvl \in APILevels, v \in PlainArgs : BoundLog(lvl, v)
    \/ \E v \in PanicVals : CallerPanic(v)
    \/ \E n \in 0..MaxExtras, d \in 1..MaxDepth : PrintPanicStack(Extras(n), d)
    \/ Crash

Spec == Init /\ [][Next]_vars

----------------------------------------------------------------------------
(* InitLogSetting run by several goroutines at once.  The function takes   *)
(* no lock: logFileHook, errLogFileHook and l are package variables, and   *)
(* each store to and load from one of them is a step of its own.           *)

\* the configurations the concurrent callers pass
RaceConfigs == {c \in Configs : c.Level = DefaultConf.Level /\ c.LocalTime = DefaultConf.LocalTime}

\* lines 49-54: the call starts and parses the level
InitStart(i, c) ==
    /\ g[i].at = "idle"
    /\ g' = [g EXCEPT ![i] = [at |-> "L56", c |-> c, logLevel |-> ParseLevel(c.Level)]]
    /\ UNCHANGED <<conf, l, logFileHook, errLogFileHook, bound, pc, inflight, out, lastOp>>

\* lines 56-60: logFileHook = &lumberjack.Logger{...}
InitStoreMain(i) ==
    /\ g[i].at = "L56"
    /\ logFileHook' = NewMainHook(g[i].c)
    /\ g' = [g EXCEPT ![i].at = "L61"]
    /\ UNCHANGED <<conf, l, errLogFileHook, bound, pc, inflight, out, lastOp>>

\* lines 61-65: errLogFileHook = &lumberjack.Logger{...}
InitStoreErr(i) ==
    /\ g[i].at = "L61"
    /\ errLogFileHook' = NewErrHook(g[i].c)
    /\ g' = [g EXCEPT ![i].at = "L90"]
    /\ UNCHANGED <<conf, l, logFileHook, bound, pc, inflight, out, lastOp>>

\* line 90: zapcore.AddSync(logFileHook) reads the package variable
InitLoadMain(i) ==
    /\ g[i].at = "L90"
    /\ g' = [g EXCEPT ![i] = [at |-> "L91", c |-> g[i].c, logLevel |-> g[i].logLevel,
                              mainWS |-> logFileHook]]
    /\ UNCHANGED <<conf, l, logFileHook, errLogFileHook, bound, pc, inflight, out, lastOp>>

\* line 91: zapcore.AddSync(errLogFileHook) reads the package variable
InitLoadErr(i) ==
    /\ g[i].at = "L91"
    /\ g' = [g EXCEPT ![i] = [at |-> "L97", c |-> g[i].c, logLevel |-> g[i].logLevel,
                              mainWS |-> g[i].mainWS, errWS |-> errLogFileHook]]
    /\ UNCHANGED <<conf, l, logFileHook, errLogFileHook, bound, pc, inflight, out, lastOp>>

\* lines 96-97: l = logger.Sugar(), and the call returns
InitInstall(i) ==
    /\ g[i].at = "L97"
    /\ l' = NewLogger(g[i].logLevel, g[i].mainWS, g[i].errWS)
    /\ g' = [g EXCEPT ![i] = [at |-> "done", c |-> g[i].c, logLevel |-> g[i].logLevel]]
    /\ UNCHANGED <<conf, logFileHook, errLogFileHook, bound, pc, inflight, out, lastOp>>

NextRace ==
    \/ \E i \in Goroutines, c \in RaceConfigs : InitStart(i, c)
    \/ \E i \in Goroutines : InitStoreMain(i)
    \/ \E i \in Goroutines : InitStoreErr(i)
    \/ \E i \in Goroutines : InitLoadMain(i)
    \/ \E i \in Goroutines : InitLoadErr(i)
    \/ \E i \in Goroutines : InitInstall(i)
    \/ \E v \in PlainArgs : Info(v)
    \/ \E v \in PlainArgs : Error(v)

SpecRace == Init /\ [][NextRace]_vars

----------------------------------------------------------------------------
(* Vocabulary of the properties *)

\* the severity ordering debug < info < warn < error < dpanic < panic < fatal
LevelNames == <<"debug", "info", "warn", "error", "dpanic", "panic", "fatal">>
Rank(name) == CHOOSE i \in 1..Len(LevelNames) : LevelNames[i] = name
NameOf(lvl) == LevelNames[lvl + 2]
IsLevelName(s) == \E i \in 1..Len(LevelNames) : LevelNames[i] = s

PkgOps == {"Debug", "Debugf", "Debugw", "Info", "Infof", "Infow", "Warn", "Warnf", "Warnw",
           "Error", "Errorf", "Errorw", "Fatal", "Fatalf", "Fatalw", "Panic", "Panicf", "Panicw"}
FatalOps == {"Fatal", "Fatalf", "Fatalw"}
PanicOps == {"Panic", "Panicf", "Panicw"}

Writes(o) == SelectSeq(o, LAMBDA e : e.ev = "write")
\* the destinations the latest call wrote a record of level lvl to
SinksOf(o, lvl) == {Writes(o)[i].sink : i \in {j \in 1..Len(Writes(o)) : Writes(o)[j].level = lvl}}
AllSinks(o) == {Writes(o)[i].sink : i \in 1..Len(Writes(o))}

MainFile == logFileHook.Filename
ErrFile == errLogFileHook.Filename

\* C1: after InitLogSetting with minimum level M, a record of level L emitted
\* through the leveled API is written to the main file sink iff L >= M in the
\* ordering debug < info < warn < error < dpanic < panic < fatal.
C1_MainFileIffAtLeastMinimum ==
    /\ (lastOp.op = "InitLogSetting" /\ IsLevelName(lastOp.c.Level))
          => NameOf(l.logLevel) = lastOp.c.Level
    /\ lastOp.op \in PkgOps
          => (MainFile \in SinksOf(out, lastOp.lvl)
                <=> Rank(NameOf(lastOp.lvl)) >= Rank(NameOf(l.logLevel)))

C1_Witness ==
    /\ lastOp.op = "Errorf"
    /\ NameOf(l.logLevel) = "warn"
    /\ MainFile \in SinksOf(out, ErrorLevel)

\* C2 as stated: a record with L >= error and L >= M is in the main file, the
\* error file and on stderr; a record with M <= L < error is on stdout ONLY.
C2_StdoutOnlyBelowError ==
    lastOp.op \in PkgOps =>
        LET L == Rank(NameOf(lastOp.lvl))
            M == Rank(NameOf(l.logLevel))
        IN  /\ (L >= Rank("error") /\ L >= M)
                  => {MainFile, ErrFile, Stderr} \subseteq SinksOf(out, lastOp.lvl)
            /\ (M <= L /\ L < Rank("error"))
                  => SinksOf(out, lastOp.lvl) = {Stdout}

\* C2 amended: a record with L >= error and L >= M is written to exactly the
\* main file, the error file and stderr; a record with M <= L < error is
\* written to exactly stdout and the main file (not the error file, not stderr).
C2_RoutingBySeverity ==
    lastOp.op \in PkgOps =>
        LET L == Rank(NameOf(lastOp.lvl))
            M == Rank(NameOf(l.logLevel))
        IN  /\ (L >= Rank("error") /\ L >= M)
                  => SinksOf(out, lastOp.lvl) = {MainFile, ErrFile, Stderr}
            /\ (M <= L /\ L < Rank("error"))
                  => SinksOf(out, lastOp.lvl) = {Stdout, MainFile}

C2_Witness ==
    /\ lastOp.op = "Warn"
    /\ NameOf(l.logLevel) = "info"
    /\ SinksOf(out, WarnLevel) = {Stdout, MainFile}

\* C3: once InitLogSetting has returned, every file write of a later logging
\* call, made through the package functions or through a handle that With
\* returned earlier, goes to the paths of the latest configuration.
C3_WritesGoToCurrentPaths ==
    lastOp.op \in PkgOps \cup {"bound"} =>
        AllSinks(out) \subseteq {MainFile, ErrFile, Stdout, Stderr}

\* C4: after InitLogSetting, the object GetLogConf returns is the
\* configuration object the installed logger was built from.
C4_GetLogConfIsLiveConfig ==
    lastOp.op = "InitLogSetting" => lastOp.cptr = GetLogConf

\* the records the main file received from the latest call, in order
MainRecords == SelectSeq(Writes(out), LAMBDA e : e.sink = MainFile)

\* the messages PrintPanicStack is to log for recovered value x, depth frames
\* and the given extras: the value, frames 0..depth-1, extras 0..n-1
ValueMsg(x) == IF IsString(x) THEN x[2] ELSE <<"Sprint", <<x>>>>
FrameMsg(i) == <<"Sprintf", FrameFormat, <<IntV(i), Frame(i)>>>>
ExtraMsg(k, e) == <<"Sprintf", ExtraFormat, <<IntV(k), Str(Sdump(e))>>>>
PanicReport(x, depth, extras) ==
    <<ValueMsg(x)>>
    \o [i \in 1..depth |-> FrameMsg(i - 1)]
    \o [k \in 1..Len(extras) |-> ExtraMsg(k - 1, extras[k])]

ReportedInMain(x, depth, extras) ==
    /\ Len(MainRecords) = Len(PanicReport(x, depth, extras))
    /\ \A i \in 1..Len(MainRecords) :
          /\ MainRecords[i].msg = PanicReport(x, depth, extras)[i]
          /\ MainRecords[i].level = ErrorLevel

\* C5 as stated: for every minimum level, PrintPanicStack run while a panic
\* with a (non-nil) value v unwinds stops the panic and logs v, then the frames
\* 0,1,2,..., then the n extras with their indices, each record reaching the
\* main file.
C5_PanicReportAlwaysInMain ==
    (lastOp.op = "PrintPanicStack" /\ lastOp.v # NoPanic /\ lastOp.v # <<Nil>>) =>
        /\ pc = "running"
        /\ inflight = NoPanic
        /\ ReportedInMain(lastOp.v[1], lastOp.walked, lastOp.extras)

\* C5 amended: PrintPanicStack always stops the panic.  When recover() gives
\* a non-nil value and the minimum level is error or lower, the main file
\* receives the value, then frames 0,1,2,..., then the n indexed extras, in
\* this order; with a minimum of dpanic, panic or fatal, or when recover()
\* gives nil for panic(nil), no record is written at all.
C5_PanicReportWhenErrorEnabled ==
    (lastOp.op = "PrintPanicStack" /\ lastOp.v # NoPanic) =>
        /\ pc = "running"
        /\ inflight = NoPanic
        /\ (lastOp.v[1] # Nil => lastOp.x = lastOp.v[1])
        /\ IF lastOp.x # Nil /\ Rank(NameOf(l.logLevel)) <= Rank("error")
           THEN ReportedInMain(lastOp.x, lastOp.walked, lastOp.extras)
           ELSE out = << >>

C5_Witness ==
    /\ lastOp.op = "PrintPanicStack"
    /\ lastOp.v = <<Str(Text("boom"))>>
    /\ lastOp.walked = MaxDepth
    /\ Len(lastOp.extras) = MaxExtras
    /\ NameOf(l.logLevel) = "error"
    /\ Len(MainRecords) = 1 + MaxDepth + MaxExtras

\* the sinks a record of level lvl is eligible for under the installed logger
Eligible(lvl) ==
    IF Rank(NameOf(lvl)) < Rank(NameOf(l.logLevel)) THEN {}
    ELSE IF Rank(NameOf(lvl)) >= Rank("error") THEN {MainFile, ErrFile, Stderr}
    ELSE {MainFile, Stdout}

\* every effect before the last is a write of the call's record
WritesThen(o, lvl) ==
    /\ \A i \in 1..(Len(o) - 1) : o[i].ev = "write" /\ o[i].level = lvl
    /\ SinksOf(o, lvl) = Eligible(lvl)

\* C6: Fatal/Fatalf/Fatalw write the record to the eligible sinks and then
\* terminate the process; Panic/Panicf/Panicw write it and then raise a panic
\* that propagates; neither returns to the caller, and the write comes first.
C6_WriteThenExitOrPanic ==
    /\ lastOp.op \in FatalOps =>
          /\ pc = "exited"
          /\ Ends(out, "exit")
          /\ WritesThen(out, FatalLevel)
    /\ lastOp.op \in PanicOps =>
          /\ pc \in {"panicking", "crashed"}
          /\ inflight # NoPanic
          /\ Ends(out, "panic")
          /\ WritesThen(out, PanicLevel)

C6_Witness ==
    /\ lastOp.op = "Panicw"
    /\ pc = "panicking"
    /\ NameOf(l.logLevel) = "info"
    /\ Len(out) = 4

\* the fields With is to bind: args[1] = args[2], args[3] = args[4], ...
Pairs(args) == [i \in 1..(Len(args) \div 2) |-> Field(args[2 * i - 1][2], args[2 * i])]

\* C7: the logger With(k_1, v_1, ..., k_n, v_n) returns holds exactly the n
\* fields k_i = v_i, and every record logged through it carries them.
C7_WithBindsPairs ==
    /\ lastOp.op = "With" => bound.fields = Pairs(lastOp.args)
    /\ lastOp.op = "bound" => \A i \in 1..Len(Writes(out)) : Writes(out)[i].fields = bound.fields

\* C8: after InitLogSetting(c) the main sink and the error sink both have
\* their local-time flag equal to c.LocalTime and their max-age equal to c.MaxAge.
C8_SinksFollowConfig ==
    lastOp.op = "InitLogSetting" =>
        /\ logFileHook.LocalTime = lastOp.c.LocalTime
        /\ errLogFileHook.LocalTime = lastOp.c.LocalTime
        /\ logFileHook.MaxAge = lastOp.c.MaxAge
        /\ errLogFileHook.MaxAge = lastOp.c.MaxAge

\* the level strings of the model that zap does not recognise
Unrecognized == {"verbose", "trace"}

\* C9: InitLogSetting with an unrecognised Level string raises nothing, writes
\* nothing, installs a logger on new sinks for the given file name and
\* max-age, and its minimum level is the one the level variable held before
\* parsing (debug), whatever the string was.
C9_BadLevelFallsBackToDebug ==
    (lastOp.op = "InitLogSetting" /\ lastOp.c.Level \in Unrecognized) =>
        /\ pc = "running"
        /\ inflight = NoPanic
        /\ out = << >>
        /\ NameOf(l.logLevel) = "debug"
        /\ l.main = logFileHook
        /\ l.err = errLogFileHook
        /\ l.main.Filename = <<"./logs/", lastOp.c.FileName, ".log">>
        /\ l.err.Filename = <<"./logs/", lastOp.c.FileName, "_err.log">>
        /\ l.main.MaxAge = lastOp.c.MaxAge
        /\ l.err.MaxAge = lastOp.c.MaxAge

C9_Witness ==
    /\ lastOp.op = "InitLogSetting"
    /\ lastOp.c.Level = "trace"
    /\ lastOp.c.FileName = "app"
    /\ NameOf(l.logLevel) = "debug"
    /\ l.main.Filename = <<"./logs/", "app", ".log">>

Returned == \A i \in Goroutines : g[i].at = "done"
BuiltBy(i) ==
    /\ l.main = NewMainHook(g[i].c)
    /\ l.err = NewErrHook(g[i].c)
    /\ logFileHook = NewMainHook(g[i].c)
    /\ errLogFileHook = NewErrHook(g[i].c)

\* C10: under every interleaving of concurrent InitLogSetting calls, each
\* installed logger has its main sink and its error sink built from one
\* configuration (same stem, same max-age), and once all calls have returned
\* the logger and both sink handles belong to the configuration of one call.
C10_SinksFromOneConfig ==
    /\ l.main.Filename[2] = l.err.Filename[2]
    /\ l.main.MaxAge = l.err.MaxAge
    /\ Returned => \E i \in Goroutines : BuiltBy(i)

====
